---- MODULE Spec2Model ----
(***************************************************************************)
(* Fork-aware block acceptor of the consensus engine                       *)
(* (consensus/src/consensus.rs): receive_block, process_block,             *)
(* verify_block and the canon-difficulty comparison, over an abstract      *)
(* ledger (stored blocks, canon chain, serial numbers) and a memory pool.  *)
(***************************************************************************)
EXTENDS Integers, Sequences, FiniteSets, TLC

VARIABLES stored, canon, sns, memory_pool, last, received, batch_used, calls,
          agent_pc, channel, current, replies, sent,
          node_state, terminator, miner_parent, tasks, advanced,
          miner_pc, candidates, assembled,
          codec, getblocks, builder, peer, cache

ledgerVars == <<stored, canon, sns, memory_pool, last, received, batch_used, calls>>

agentVars == <<agent_pc, channel, current, replies, sent>>

nodeVars == <<node_state, terminator, miner_parent, tasks, advanced>>

minerVars == <<miner_pc, candidates, assembled>>

\* One record for each component that is exercised on its own.
unitVars == <<codec, getblocks, builder, peer, cache>>

vars == <<ledgerVars, agentVars, nodeVars, minerVars, unitVars>>

\* The number of receive_block calls explored.
MaxCalls == 4

\* The number of commands sent to the consensus actor.
MaxCommands == 3

\* The number of blocks received from peers.
MaxTasks == 2

\* The number of candidate transactions the miner is given.
MaxCandidates == 2

\* The highest reading of the miner's clock.
MaxClock == 3

\* The maximum message size of the codec.
MaxMessageSize == 2

\* The capacity of the inbound cache's circular queue.
CacheCapacity == 3

\* The number of payloads a peer's socket delivers.
MaxPayloads == 5

\* The number of blocks served for one GetBlocks request.
MAX_BLOCK_SYNC_COUNT == 3

\* The number of bytes waiting in the decoder's source.
MaxBuffer == 7

(***************************************************************************)
(* The universe of blocks and transactions.                                *)
(*                                                                         *)
(*      G --- A --- B --- C          (main chain)                          *)
(*       \                                                                 *)
(*        S1 --- S2                  (side chain)                          *)
(*          \                                                              *)
(*           X                       (header does not verify)              *)
(*                                                                         *)
(* Three more blocks carry transaction lists that block validation is      *)
(* about: Y (child of G, no coinbase), W (child of G, two coinbases) and   *)
(* D (child of A, two transactions spending the same serial number).       *)
(***************************************************************************)
NoHash == "none"

BlockIds == {"G", "A", "B", "C", "S1", "S2", "X"}

ValidationBlockIds == {"Y", "W", "D"}

AllBlockIds == BlockIds \cup ValidationBlockIds

GenesisBlock == "G"

previous_block_hash(b) ==
    CASE b = "G"  -> NoHash
      [] b = "A"  -> "G"
      [] b = "B"  -> "A"
      [] b = "C"  -> "B"
      [] b = "S1" -> "G"
      [] b = "S2" -> "S1"
      [] b = "X"  -> "S1"
      [] b = "Y"  -> "G"
      [] b = "W"  -> "G"
      [] b = "D"  -> "A"

difficulty_target(b) ==
    CASE b = "G"  -> 1
      [] b = "A"  -> 3
      [] b = "B"  -> 2
      [] b = "C"  -> 2
      [] b = "S1" -> 3
      [] b = "S2" -> 3
      [] b = "X"  -> 4
      [] b = "Y"  -> 1
      [] b = "W"  -> 1
      [] b = "D"  -> 1

\* Whether the header's own fields (timestamp, target, proof) verify
\* against the header's parent.
header_fields_ok(b) == b # "X"

transactions(b) ==
    CASE b = "G"  -> <<"cbG">>
      [] b = "A"  -> <<"t2", "cbA">>
      [] b = "B"  -> <<"t1", "cbB">>
      [] b = "C"  -> <<"cbC">>
      [] b = "S1" -> <<"cbS1">>
      [] b = "S2" -> <<"t1", "cbS2">>
      [] b = "X"  -> <<"cbX">>
      [] b = "Y"  -> <<"y1">>
      [] b = "W"  -> <<"cbW1", "cbW2">>
      [] b = "D"  -> <<"d1", "d2", "cbD">>

TxIds == {"cbG", "cbA", "cbB", "cbC", "cbS1", "cbS2", "cbX", "t1", "t2",
          "y1", "cbW1", "cbW2", "d1", "d2", "cbD"}

PoolTxIds == {"t1", "t2"}

value_balance(t) ==
    CASE t \in {"t1", "t2", "y1", "d1", "d2"} -> 1
      [] t \in {"cbA", "cbB", "cbS2"}        -> -5
      [] t \in {"cbW1", "cbW2"}              -> -2
      [] t = "cbD"                           -> -6
      [] OTHER                               -> -4

\* Every transaction of the universe was made with the one authorized
\* inner circuit.
authorized_inner_circuit_ids == {"inner"}

inner_circuit_id(t) == "inner"

\* A transaction spends one record; its serial number is named after it,
\* except that d1 and d2 spend the same record.
old_serial_number(t) == IF t \in {"d1", "d2"} THEN "snD" ELSE t

\* The timestamp of a block's header.
block_time(b) ==
    CASE b = "G"                 -> 0
      [] b \in {"A", "S1"}       -> 2
      [] b \in {"B", "S2", "D"}  -> 3
      [] b = "C"                 -> 4
      [] OTHER                   -> 1

InitialBlockReward == 4

\* The reward is a function of the height: it is halved after height 3.
get_block_reward(block_num) ==
    IF block_num <= 3 THEN InitialBlockReward ELSE InitialBlockReward \div 2

Range(s) == {s[i] : i \in 1..Len(s)}

(***************************************************************************)
(* The ledger interface used by the engine.  A ledger state is a record    *)
(* [stored, canon, sns, pool, log]; canon[i] is the block at height i-1.   *)
(***************************************************************************)
is_genesis(b) == previous_block_hash(b) = NoHash

contains_block_hash(s, h) == h \in s.stored

is_canon(s, h) == \E i \in 1..Len(s.canon) : s.canon[i] = h

is_empty(s) == s.canon = <<>>

block_height(s) == IF s.canon = <<>> THEN 0 ELSE Len(s.canon) - 1

latest_block(s) == IF s.canon = <<>> THEN NoHash ELSE s.canon[Len(s.canon)]

get_block_hash(s, height) ==
    IF height + 1 \in 1..Len(s.canon) THEN s.canon[height + 1] ELSE NoHash

get_block_number(s, h) == (CHOOSE i \in 1..Len(s.canon) : s.canon[i] = h) - 1

\* All the longest chains of stored blocks that start at h (h included,
\* whether or not h itself is stored yet).  More than one when siblings tie.
RECURSIVE child_paths(_, _)
child_paths(s, h) ==
    LET children == {c \in s.stored : previous_block_hash(c) = h}
        tails    == UNION {child_paths(s, c) : c \in children}
        best     == {p \in tails : \A q \in tails : Len(q) <= Len(p)}
    IN  IF children = {} THEN {<<h>>} ELSE {<<h>> \o p : p \in best}

longest_child_paths(s, h) == child_paths(s, h)

RECURSIVE aggregate_target(_)
aggregate_target(path) ==
    IF path = <<>> THEN 0
    ELSE difficulty_target(Head(path)) + aggregate_target(Tail(path))

\* Walk from the parent of the new block back to the canon chain,
\* collecting the un-committed ancestors in front of `path`.
RECURSIVE side_chain_walk(_, _, _, _, _)
side_chain_walk(s, b, parent_hash, path, child_path) ==
    IF is_canon(s, parent_hash)
    THEN LET full == path \o child_path
         IN  [kind                 |-> "SideChain",
              shared_block_number  |-> get_block_number(s, parent_hash),
              new_block_number     |-> get_block_number(s, parent_hash) + Len(full),
              path                 |-> full,
              aggregate_difficulty |-> aggregate_target(full)]
    ELSE IF ~contains_block_hash(s, parent_hash)
    THEN [kind |-> "Error"]
    ELSE side_chain_walk(s, b, previous_block_hash(parent_hash),
                         <<parent_hash>> \o path, child_path)

get_block_path(s, b, child_path) ==
    IF contains_block_hash(s, b)
    THEN [kind |-> "ExistingBlock"]
    ELSE IF latest_block(s) = previous_block_hash(b)
    THEN [kind |-> "CanonChain", block_height |-> block_height(s) + 1]
    ELSE side_chain_walk(s, b, previous_block_hash(b), <<>>, child_path)

insert_only(s, b) == [s EXCEPT !.stored = @ \cup {b}]

block_serial_numbers(b) == {old_serial_number(t) : t \in Range(transactions(b))}

insert_and_commit(s, b) ==
    [s EXCEPT !.stored = @ \cup {b},
              !.canon  = Append(@, b),
              !.sns    = @ \cup block_serial_numbers(b)]

revert_for_fork(s, side_chain_path) ==
    LET keep    == side_chain_path.shared_block_number + 1
        dropped == {s.canon[i] : i \in (keep + 1)..Len(s.canon)}
    IN  [s EXCEPT !.canon = SubSeq(@, 1, keep),
                  !.sns   = @ \ UNION {block_serial_numbers(b) : b \in dropped}]

remove_by_hash(s, t) == [s EXCEPT !.pool = @ \ {t}]

(***************************************************************************)
(* Block validation.                                                       *)
(***************************************************************************)
verify_header(header, parent_header) ==
    /\ previous_block_hash(header) = parent_header
    /\ header_fields_ok(header)

\* Each transaction is checked against the ledger as it stands before the
\* block is applied; of the ledger checks only the serial numbers are
\* tracked (memos, commitments and digests of the universe never clash).
dpc_verify(s, t) == old_serial_number(t) \notin s.sns

verify_transactions(s, txs) ==
    IF \E i \in 1..Len(txs) : inner_circuit_id(txs[i]) \notin authorized_inner_circuit_ids
    THEN FALSE
    ELSE \A i \in 1..Len(txs) : dpc_verify(s, txs[i])

RECURSIVE coinbase_transaction_count(_)
coinbase_transaction_count(txs) ==
    IF txs = <<>> THEN 0
    ELSE (IF value_balance(Head(txs)) < 0 THEN 1 ELSE 0)
         + coinbase_transaction_count(Tail(txs))

RECURSIVE total_value_balance(_)
total_value_balance(txs) ==
    IF txs = <<>> THEN 0
    ELSE value_balance(Head(txs)) + total_value_balance(Tail(txs))

verify_block(s, block) ==
    LET current_block_height == block_height(s)
        check                == current_block_height > 0 /\ ~is_genesis(block)
    IN  IF check /\ ~verify_header(block, latest_block(s))
        THEN FALSE
        ELSE IF coinbase_transaction_count(transactions(block)) > 1
        THEN FALSE
        ELSE IF check /\ total_value_balance(transactions(block))
                           + get_block_reward(current_block_height + 1) # 0
        THEN FALSE
        ELSE verify_transactions(s, transactions(block))

(***************************************************************************)
(* process_block: verify, insert/canonize, remove the block's              *)
(* transactions from the memory pool.  Returns the new state and the       *)
(* result; every commit is appended to the state's log with the heights    *)
(* read before and after it.                                               *)
(***************************************************************************)
RECURSIVE remove_all(_, _)
remove_all(s, txs) ==
    IF txs = <<>> THEN s ELSE remove_all(remove_by_hash(s, Head(txs)), Tail(txs))

\* process_block leaving the block's transactions in the memory pool.
process_block_keep_pool(s, block) ==
    IF is_canon(s, block)
    THEN [state |-> s, result |-> "Ok"]
    ELSE IF ~verify_block(s, block)
    THEN [state |-> s, result |-> "InvalidBlock"]
    ELSE LET committed == insert_and_commit(s, block)
             logged    == [committed EXCEPT !.log =
                              Append(@, [block  |-> block,
                                         before |-> block_height(s),
                                         after  |-> block_height(committed)])]
         IN  [state  |-> logged,
              result |-> "Ok"]

\* process_block storing the block without canonizing it.
process_block_insert_only(s, block) ==
    IF is_canon(s, block)
    THEN [state |-> s, result |-> "Ok"]
    ELSE IF ~verify_block(s, block)
    THEN [state |-> s, result |-> "InvalidBlock"]
    ELSE LET committed == insert_only(s, block)
             logged    == [committed EXCEPT !.log =
                              Append(@, [block  |-> block,
                                         before |-> block_height(s),
                                         after  |-> block_height(committed)])]
         IN  [state  |-> remove_all(logged, transactions(block)),
              result |-> "Ok"]

process_block(s, block) ==
    IF is_canon(s, block)
    THEN [state |-> s, result |-> "Ok"]
    ELSE IF ~verify_block(s, block)
    THEN [state |-> s, result |-> "InvalidBlock"]
    ELSE LET committed == insert_and_commit(s, block)
             logged    == [committed EXCEPT !.log =
                              Append(@, [block  |-> block,
                                         before |-> block_height(s),
                                         after  |-> block_height(committed)])]
         IN  [state  |-> remove_all(logged, transactions(block)),
              result |-> "Ok"]

\* Process the blocks of a path in order; the first failure ends the call.
RECURSIVE process_path(_, _)
process_path(s, path) ==
    IF path = <<>> THEN [state |-> s, result |-> "Ok"]
    ELSE LET r == process_block(s, Head(path))
         IN  IF r.result # "Ok" THEN r ELSE process_path(r.state, Tail(path))

\* The canon sum taken one block too far down (the shared block included).
get_canon_difficulty_from_height_inclusive(s, height) ==
    LET current_block_height == block_height(s)
        path_size            == current_block_height - height + 1
    IN  aggregate_target([i \in 1..path_size |->
                             get_block_hash(s, current_block_height - (i - 1))])

get_canon_difficulty_from_height(s, height) ==
    LET current_block_height == block_height(s)
        path_size            == current_block_height - height
    IN  aggregate_target([i \in 1..path_size |->
                             get_block_hash(s, current_block_height - (i - 1))])

(***************************************************************************)
(* receive_block.  child_path is the longest child path of the new block   *)
(* the ledger returns (one of longest_child_paths when siblings tie).      *)
(* The outcome records the branch taken and, on the side-chain branch,     *)
(* the path and the two difficulties that were compared.                   *)
(***************************************************************************)
NoSide == [kind |-> "None"]

\* get_delta_percentage has not been called.
NoDelta == [called |-> FALSE]

\* The subtraction of get_delta_percentage on u128: below zero it wraps (or
\* panics when overflow checks are on), which the record flags as underflow;
\* the ratio computed from delta is a float that is only logged.
get_delta_percentage(side_chain_diff, canon_diff) ==
    [called          |-> TRUE,
     side_chain_diff |-> side_chain_diff,
     canon_diff      |-> canon_diff,
     underflow       |-> side_chain_diff < canon_diff,
     delta           |-> IF side_chain_diff < canon_diff
                         THEN 0
                         ELSE side_chain_diff - canon_diff]

Outcome(s, result, branch, side, canon_difficulty, forked) ==
    [state |-> s, result |-> result, branch |-> branch, side |-> side,
     canon_difficulty |-> canon_difficulty, forked |-> forked, delta |-> NoDelta]

\* The block is a genesis block: compare with the canon genesis, change nothing.
receive_genesis(s, block) ==
    IF get_block_hash(s, 0) = NoHash
    THEN Outcome(s, "StorageError", "Genesis", NoSide, 0, FALSE)
    ELSE Outcome(s, "Ok", "Genesis", NoSide, 0, FALSE)

\* The orphan branch without the is_empty test.
receive_unknown_orphan_always_process(s, block) ==
    LET r == process_block(s, block)
    IN  Outcome(r.state, r.result, "Orphan", NoSide, 0, FALSE)

\* The parent of the block is neither stored nor canon.
receive_unknown_orphan(s, block) ==
    IF is_empty(s)
    THEN LET r == process_block(s, block)
         IN  Outcome(r.state, r.result, "UnknownGenesis", NoSide, 0, FALSE)
    ELSE Outcome(insert_only(s, block), "Ok", "Orphan", NoSide, 0, FALSE)

\* The pre-existing branch falling through to success.
receive_existing_block_ok(s, block) ==
    Outcome(s, "Ok", "ExistingBlock", NoSide, 0, FALSE)

receive_existing_block(s, block) ==
    Outcome(s, "PreExistingBlock", "ExistingBlock", NoSide, 0, FALSE)

\* The fast-forward guarded by batch_import instead of !batch_import.
receive_canon_chain_inverted(s, block, batch_import, child_path) ==
    LET r == process_block(s, block)
    IN  IF r.result # "Ok"
        THEN Outcome(r.state, r.result, "CanonChain", NoSide, 0, FALSE)
        ELSE IF batch_import
        THEN LET f == process_path(r.state, Tail(child_path))
             IN  Outcome(f.state, f.result, "CanonChain", NoSide, 0, FALSE)
        ELSE Outcome(r.state, "Ok", "CanonChain", NoSide, 0, FALSE)

\* The fast-forward taken whatever batch_import says.
receive_canon_chain_always_forward(s, block, batch_import, child_path) ==
    LET r == process_block(s, block)
    IN  IF r.result # "Ok"
        THEN Outcome(r.state, r.result, "CanonChain", NoSide, 0, FALSE)
        ELSE LET f == process_path(r.state, Tail(child_path))
             IN  Outcome(f.state, f.result, "CanonChain", NoSide, 0, FALSE)

\* The block extends the canon tip: commit it, then canonize the stored
\* descendants unless this is a batch import.
receive_canon_chain(s, block, batch_import, child_path) ==
    LET r == process_block(s, block)
    IN  IF r.result # "Ok"
        THEN Outcome(r.state, r.result, "CanonChain", NoSide, 0, FALSE)
        ELSE IF ~batch_import
        THEN LET f == process_path(r.state, Tail(child_path))
             IN  Outcome(f.state, f.result, "CanonChain", NoSide, 0, FALSE)
        ELSE Outcome(r.state, "Ok", "CanonChain", NoSide, 0, FALSE)

\* The fork taken on a tie as well (>= instead of >).
receive_side_chain_on_tie(s, block, side_chain_path) ==
    LET canon_difficulty ==
            get_canon_difficulty_from_height(s, side_chain_path.shared_block_number)
    IN  IF side_chain_path.aggregate_difficulty >= canon_difficulty
        THEN LET reverted == revert_for_fork(s, side_chain_path)
                 r        == process_path(reverted, side_chain_path.path)
             IN  [Outcome(r.state, r.result, "SideChain", side_chain_path,
                          canon_difficulty, TRUE)
                     EXCEPT !.delta = get_delta_percentage(
                                          side_chain_path.aggregate_difficulty,
                                          canon_difficulty)]
        ELSE Outcome(insert_only(s, block), "Ok", "SideChain", side_chain_path,
                     canon_difficulty, FALSE)

\* The fork processing only the received block, not the whole path.
receive_side_chain_tip_only(s, block, side_chain_path) ==
    LET canon_difficulty ==
            get_canon_difficulty_from_height(s, side_chain_path.shared_block_number)
    IN  IF side_chain_path.aggregate_difficulty > canon_difficulty
        THEN LET reverted == revert_for_fork(s, side_chain_path)
                 r        == process_block(reverted, block)
             IN  [Outcome(r.state, r.result, "SideChain", side_chain_path,
                          canon_difficulty, TRUE)
                     EXCEPT !.delta = get_delta_percentage(
                                          side_chain_path.aggregate_difficulty,
                                          canon_difficulty)]
        ELSE Outcome(insert_only(s, block), "Ok", "SideChain", side_chain_path,
                     canon_difficulty, FALSE)

\* The difference of the difficulties reported for every side-chain block.
receive_side_chain_always_reports(s, block, side_chain_path) ==
    LET canon_difficulty ==
            get_canon_difficulty_from_height(s, side_chain_path.shared_block_number)
        delta ==
            get_delta_percentage(side_chain_path.aggregate_difficulty, canon_difficulty)
    IN  IF side_chain_path.aggregate_difficulty > canon_difficulty
        THEN LET reverted == revert_for_fork(s, side_chain_path)
                 r        == process_path(reverted, side_chain_path.path)
             IN  [Outcome(r.state, r.result, "SideChain", side_chain_path,
                          canon_difficulty, TRUE) EXCEPT !.delta = delta]
        ELSE [Outcome(insert_only(s, block), "Ok", "SideChain", side_chain_path,
                      canon_difficulty, FALSE) EXCEPT !.delta = delta]

\* The block extends a side chain: fork to it when it is heavier than the
\* canon chain above the shared block, otherwise only store the block.
receive_side_chain(s, block, side_chain_path) ==
    LET canon_difficulty ==
            get_canon_difficulty_from_height(s, side_chain_path.shared_block_number)
    IN  IF side_chain_path.aggregate_difficulty > canon_difficulty
        THEN LET reverted == revert_for_fork(s, side_chain_path)
                 r        == process_path(reverted, side_chain_path.path)
             IN  [Outcome(r.state, r.result, "SideChain", side_chain_path,
                          canon_difficulty, TRUE)
                     EXCEPT !.delta = get_delta_percentage(
                                          side_chain_path.aggregate_difficulty,
                                          canon_difficulty)]
        ELSE Outcome(insert_only(s, block), "Ok", "SideChain", side_chain_path,
                     canon_difficulty, FALSE)

receive_block(s, block, batch_import, child_path) ==
    IF is_genesis(block)
    THEN receive_genesis(s, block)
    ELSE IF /\ ~contains_block_hash(s, previous_block_hash(block))
            /\ ~is_canon(s, previous_block_hash(block))
    THEN receive_unknown_orphan(s, block)
    ELSE LET block_path == get_block_path(s, block, child_path)
         IN  CASE block_path.kind = "Error" ->
                    Outcome(s, "StorageError", "Error", NoSide, 0, FALSE)
               [] block_path.kind = "ExistingBlock" ->
                    receive_existing_block(s, block)
               [] block_path.kind = "CanonChain" ->
                    receive_canon_chain(s, block, batch_import, child_path)
               [] block_path.kind = "SideChain" ->
                    receive_side_chain(s, block, block_path)

(***************************************************************************)
(* State machine.                                                          *)
(***************************************************************************)
Ledger == [stored |-> stored, canon |-> canon, sns |-> sns,
           pool |-> memory_pool, log |-> <<>>]

NoCall == [block |-> NoHash]

NoMessage == [id |-> 0, msg |-> [kind |-> "None", arg |-> NoHash]]

\* The consensus actor is not part of the run.
AgentOff ==
    /\ agent_pc = "off"
    /\ channel = <<>>
    /\ current = NoMessage
    /\ replies = <<>>
    /\ sent = 0

\* No block is being received from a peer and the node is not mining.
NodeOff ==
    /\ node_state = "Idle"
    /\ terminator = FALSE
    /\ miner_parent = NoHash
    /\ tasks = <<>>
    /\ advanced = {}

\* No component is exercised on its own.
UnitsOff ==
    /\ codec = [pc |-> "off"]
    /\ getblocks = [pc |-> "off"]
    /\ builder = [pc |-> "off"]
    /\ peer = [pc |-> "off"]
    /\ cache = [pc |-> "off"]

\* The miner is not assembling a block.
MinerOff ==
    /\ miner_pc = "off"
    /\ candidates = <<>>
    /\ assembled = [result |-> "None"]

Init ==
    /\ AgentOff
    /\ NodeOff
    /\ MinerOff
    /\ UnitsOff
    /\ stored = {GenesisBlock}
    /\ canon = <<GenesisBlock>>
    /\ sns = block_serial_numbers(GenesisBlock)
    /\ memory_pool = {}
    /\ last = NoCall
    /\ received = {}
    /\ calls = 0
    /\ batch_used = FALSE

ReceiveBlockStep(block, batch_import) ==
    /\ calls < MaxCalls
    /\ calls' = calls + 1
    /\ \E child_path \in longest_child_paths(Ledger, block) :
        LET out == receive_block(Ledger, block, batch_import, child_path)
        IN  /\ stored' = out.state.stored
            /\ canon' = out.state.canon
            /\ sns' = out.state.sns
            /\ memory_pool' = out.state.pool
            /\ last' = [block            |-> block,
                        again            |-> block \in received,
                        batch_import     |-> batch_import,
                        child_path       |-> child_path,
                        result           |-> out.result,
                        branch           |-> out.branch,
                        side             |-> out.side,
                        canon_difficulty |-> out.canon_difficulty,
                        forked           |-> out.forked,
                        delta            |-> out.delta,
                        log              |-> out.state.log,
                        pre              |-> [stored |-> stored, canon |-> canon,
                                              sns |-> sns, pool |-> memory_pool]]
            /\ received' = received \cup {block}
            /\ batch_used' = (batch_used \/ batch_import)

ReceiveBlock(block, batch_import) ==
    /\ ReceiveBlockStep(block, batch_import)
    /\ UNCHANGED <<agentVars, nodeVars, minerVars, unitVars>>

\* A verified transaction enters the memory pool.
InsertTransaction(t) ==
    /\ t \notin memory_pool
    /\ old_serial_number(t) \notin sns
    /\ memory_pool' = memory_pool \cup {t}
    /\ last' = NoCall
    /\ UNCHANGED <<stored, canon, sns, received, batch_used, calls>>
    /\ UNCHANGED <<agentVars, nodeVars, minerVars, unitVars>>

Next ==
    \/ \E block \in BlockIds, batch_import \in BOOLEAN : ReceiveBlock(block, batch_import)
    \/ \E t \in PoolTxIds : InsertTransaction(t)

Spec == Init /\ [][Next]_vars

\* The same engine receiving, one call at a time, also the blocks that
\* block validation is about.
NextValidation ==
    \/ \E block \in AllBlockIds : ReceiveBlock(block, FALSE)
    \/ \E t \in PoolTxIds : InsertTransaction(t)

SpecValidation == Init /\ [][NextValidation]_vars

\* The engine of consensus.rs over a ledger that holds no block yet.
InitEmptyLedger ==
    /\ AgentOff
    /\ NodeOff
    /\ MinerOff
    /\ UnitsOff
    /\ stored = {}
    /\ canon = <<>>
    /\ sns = {}
    /\ memory_pool = {}
    /\ last = NoCall
    /\ received = {}
    /\ calls = 0
    /\ batch_used = FALSE

SpecEmptyLedger == InitEmptyLedger /\ [][Next]_vars

(***************************************************************************)
(* The consensus actor: node start-up, init, and the command loop.         *)
(***************************************************************************)
AgentBlockIds == {"A", "S1", "S2"}

Messages ==
    [kind : {"ReceiveBlock"}, arg : AgentBlockIds]
    \cup [kind : {"ForceDecommit"}, arg : {"A"}]
    \cup [kind : {"ReceiveTransaction"}, arg : {"t1"}]
    \cup [kind : {"FetchMemoryPool"}, arg : {NoHash}]

\* The canon chains a node may find in its storage when it starts.
PersistedCanons == {<<>>, <<"G">>, <<"G", "A">>, <<"G", "A", "B">>}

\* The max_head setting; -1 when it is not set.
MaxHeadSettings == {-1, 0, 1}

\* Decommit the canon blocks from the tip down to hash, hash included; the
\* blocks stay stored.
decommit_blocks(s, hash) ==
    IF ~is_canon(s, hash)
    THEN [state |-> s, result |-> "NotCommitted", decommitted |-> <<>>]
    ELSE LET keep    == get_block_number(s, hash)
             dropped == SubSeq(s.canon, keep + 1, Len(s.canon))
         IN  [state  |-> [s EXCEPT !.canon = SubSeq(@, 1, keep),
                                   !.sns   = @ \ UNION {block_serial_numbers(b) :
                                                           b \in Range(dropped)}],
              result |-> "Ok",
              decommitted |-> dropped]

\* The transactions of the decommitted blocks that the canon state left
\* after the decommit does not conflict with.
restorable(s, dropped) ==
    {t \in UNION {Range(transactions(b)) : b \in Range(dropped)} :
        old_serial_number(t) \notin s.sns}

\* The actor's decommit: the storage decommit, then the decommitted
\* transactions go back to the memory pool.
decommit_ledger_block(s, hash) ==
    LET out == decommit_blocks(s, hash)
    IN  [state  |-> [out.state EXCEPT !.pool = @ \cup restorable(out.state, out.decommitted)],
         result |-> out.result]

\* Commit the stored descendants of the canon tip along a longest path of
\* children, stopping at the first block that fails.
try_to_fast_forward(s, child_path) == process_path(s, Tail(child_path))

receive_transaction(s, t) ==
    IF t \notin s.pool /\ old_serial_number(t) \notin s.sns
    THEN [state |-> [s EXCEPT !.pool = @ \cup {t}], result |-> "Ok"]
    ELSE [state |-> s, result |-> "Rejected"]

\* The answers sent for a ReceiveBlock command: none when the call failed.
receive_block_response_on_success_only(result) ==
    IF result = "Ok" THEN <<TRUE>> ELSE <<>>

\* The answers sent for a ReceiveBlock command.
receive_block_response(result) ==
    IF result = "Ok" THEN <<TRUE>> ELSE <<FALSE>>

SetLedger(s) ==
    /\ stored' = s.stored
    /\ canon' = s.canon
    /\ sns' = s.sns
    /\ memory_pool' = s.pool

InitAgent ==
    /\ \E c \in PersistedCanons :
        /\ canon = c
        /\ stored = Range(c)
        /\ sns = UNION {block_serial_numbers(b) : b \in Range(c)}
    /\ memory_pool = {}
    /\ last = NoCall
    /\ received = {}
    /\ calls = 0
    /\ batch_used = FALSE
    /\ agent_pc = "startup"
    /\ channel = <<>>
    /\ current = NoMessage
    /\ replies = <<>>
    /\ sent = 0
    /\ NodeOff
    /\ MinerOff
    /\ UnitsOff

\* Node start-up: with max_head set, the canon blocks above it are
\* decommitted in storage before the actor exists.
StartupMaxHead(max_head) ==
    /\ agent_pc = "startup"
    /\ LET canon_next == IF max_head < 0 THEN NoHash
                         ELSE get_block_hash(Ledger, max_head + 1)
       IN  IF canon_next # NoHash
           THEN SetLedger(decommit_blocks(Ledger, canon_next).state)
           ELSE UNCHANGED <<stored, canon, sns, memory_pool>>
    /\ agent_pc' = "init"
    /\ UNCHANGED <<last, received, batch_used, calls, channel, current, replies, sent>>
    /\ UNCHANGED <<nodeVars, minerVars, unitVars>>

\* The actor's init: commit the genesis block when no block is canon, then
\* fast-forward; a failed fast-forward is only logged.
AgentInit ==
    /\ agent_pc = "init"
    /\ LET with_genesis == IF is_empty(Ledger)
                           THEN insert_and_commit(Ledger, GenesisBlock)
                           ELSE Ledger
       IN  \E child_path \in longest_child_paths(with_genesis, latest_block(with_genesis)) :
               SetLedger(try_to_fast_forward(with_genesis, child_path).state)
    /\ agent_pc' = "recv"
    /\ UNCHANGED <<last, received, batch_used, calls, channel, current, replies, sent>>
    /\ UNCHANGED <<nodeVars, minerVars, unitVars>>

\* A caller puts a command on the actor's channel.
Send(m) ==
    /\ agent_pc \in {"init", "recv", "handle"}
    /\ sent < MaxCommands
    /\ sent' = sent + 1
    /\ channel' = Append(channel, [id |-> sent + 1, msg |-> m])
    /\ UNCHANGED <<ledgerVars, agent_pc, current, replies, nodeVars, minerVars, unitVars>>

\* receiver.recv(): the actor takes the oldest command of the channel.
AgentRecv ==
    /\ agent_pc = "recv"
    /\ channel # <<>>
    /\ current' = Head(channel)
    /\ channel' = Tail(channel)
    /\ agent_pc' = "handle"
    /\ UNCHANGED <<ledgerVars, replies, sent, nodeVars, minerVars, unitVars>>

Answers(values) ==
    [i \in 1..Len(values) |-> [id |-> current.id, msg |-> current.msg, value |-> values[i]]]

\* One arm of the match: the command's effect and its response.send.
AgentHandle ==
    /\ agent_pc = "handle"
    /\ CASE current.msg.kind = "ReceiveBlock" ->
              /\ ReceiveBlockStep(current.msg.arg, FALSE)
              /\ replies' = replies \o Answers(receive_block_response(last'.result))
         [] current.msg.kind = "ForceDecommit" ->
              LET out == decommit_ledger_block(Ledger, current.msg.arg)
              IN  /\ SetLedger(out.state)
                  /\ replies' = replies \o Answers(<<out.result>>)
                  /\ last' = NoCall
                  /\ UNCHANGED <<received, batch_used, calls>>
         [] current.msg.kind = "ReceiveTransaction" ->
              LET out == receive_transaction(Ledger, current.msg.arg)
              IN  /\ SetLedger(out.state)
                  /\ replies' = replies \o Answers(<<out.result = "Ok">>)
                  /\ last' = NoCall
                  /\ UNCHANGED <<received, batch_used, calls>>
         [] current.msg.kind = "FetchMemoryPool" ->
              /\ replies' = replies \o Answers(<<memory_pool>>)
              /\ last' = NoCall
              /\ UNCHANGED <<stored, canon, sns, memory_pool, received, batch_used, calls>>
    /\ agent_pc' = "recv"
    /\ current' = NoMessage
    /\ UNCHANGED <<channel, sent, nodeVars, minerVars, unitVars>>

NextAgent ==
    \/ \E max_head \in MaxHeadSettings : StartupMaxHead(max_head)
    \/ AgentInit
    \/ \E m \in Messages : Send(m)
    \/ AgentRecv
    \/ AgentHandle

SpecAgent == InitAgent /\ [][NextAgent]_vars

(***************************************************************************)
(* The node receiving blocks from peers while its miner works.             *)
(***************************************************************************)
NodeBlockIds == {"A", "B", "S1"}

\* A block whose bytes exceed the maximum block size.
BigBlock == "Big"

max_block_size == 1

block_size(block) == IF block = BigBlock THEN max_block_size + 1 ELSE max_block_size

Peers == {"p1", "p2", "p3"}

\* The peer that blocks arrive from.
Senders == {"p1"}

NoPeer == "nobody"

\* What connected_peers() can return when a block is propagated: the sender
\* is still connected, or it has gone.
ConnectedSets == {Peers, Peers \ Senders}

FreeTask == [pc |-> "free", block |-> NoHash, is_non_sync |-> FALSE,
             canon_hash |-> NoHash, block_validity |-> FALSE,
             remote_address |-> NoPeer, result |-> "none",
             connected_peers |-> {}, sent_to |-> {}]

\* propagate_block to every peer.
propagate_block_to_all(connected_peers, block_miner) == connected_peers

\* The peers propagate_block sends the block to.
propagate_block(connected_peers, block_miner) == connected_peers \ {block_miner}

InitNode ==
    /\ stored = {GenesisBlock}
    /\ canon = <<GenesisBlock>>
    /\ sns = block_serial_numbers(GenesisBlock)
    /\ memory_pool = {}
    /\ last = NoCall
    /\ received = {}
    /\ calls = 0
    /\ batch_used = FALSE
    /\ AgentOff
    /\ MinerOff
    /\ UnitsOff
    /\ node_state = "Idle"
    /\ terminator = FALSE
    /\ miner_parent = NoHash
    /\ tasks = [id \in 1..MaxTasks |-> FreeTask]
    /\ advanced = {}

\* The miner starts an attempt on the canon tip: the tip is its snapshot
\* parent and the stop flag is clear.
StartMining ==
    /\ node_state = "Idle"
    /\ node_state' = "Mining"
    /\ miner_parent' = latest_block(Ledger)
    /\ terminator' = FALSE
    /\ UNCHANGED <<ledgerVars, agentVars, minerVars, unitVars, tasks, advanced>>

\* A Block message (is_non_sync) or a SyncBlock message arrives; each is
\* processed by a task of its own.
ReceivedBlock(id, remote_address, block, is_non_sync) ==
    /\ tasks[id].pc = "free"
    /\ \A other \in 1..(id - 1) : tasks[other].pc # "free"
    /\ tasks' = [tasks EXCEPT ![id] =
                    IF block_size(block) > max_block_size
                    THEN [FreeTask EXCEPT !.pc = "done",
                                          !.block = block,
                                          !.is_non_sync = is_non_sync,
                                          !.remote_address = remote_address,
                                          !.result = "BlockTooLarge"]
                    ELSE [FreeTask EXCEPT !.pc = "read",
                                          !.block = block,
                                          !.is_non_sync = is_non_sync,
                                          !.remote_address = remote_address]]
    /\ UNCHANGED <<ledgerVars, agentVars, minerVars, unitVars, node_state, terminator,
                   miner_parent, advanced>>

\* let canon = self.storage.canon().await?
TaskReadCanon(id) ==
    /\ tasks[id].pc = "read"
    /\ tasks' = [tasks EXCEPT ![id].pc = "call",
                              ![id].canon_hash = latest_block(Ledger)]
    /\ UNCHANGED <<ledgerVars, agentVars, minerVars, unitVars, node_state, terminator,
                   miner_parent, advanced>>

\* let block_validity = consensus.receive_block(block_struct).await
TaskReceiveBlock(id) ==
    /\ tasks[id].pc = "call"
    /\ ReceiveBlockStep(tasks[id].block, FALSE)
    /\ tasks' = [tasks EXCEPT ![id].pc = "check",
                              ![id].block_validity = (last'.result = "Ok")]
    /\ advanced' = IF /\ node_state = "Mining"
                      /\ \E i \in 1..Len(canon') :
                            /\ ~is_canon(Ledger, canon'[i])
                            /\ previous_block_hash(canon'[i]) = miner_parent
                   THEN advanced \cup {id}
                   ELSE advanced
    /\ UNCHANGED <<agentVars, minerVars, unitVars, node_state, terminator, miner_parent>>

\* The end of process_received_block: the stop flag, then propagation.
TaskFinish(id) ==
    /\ tasks[id].pc = "check"
    /\ terminator' = IF /\ tasks[id].block_validity
                        /\ tasks[id].is_non_sync
                        /\ previous_block_hash(tasks[id].block) = tasks[id].canon_hash
                        /\ node_state = "Mining"
                     THEN TRUE
                     ELSE terminator
    /\ \E connected_peers \in ConnectedSets :
          tasks' = [tasks EXCEPT
                      ![id].pc = "done",
                      ![id].result = "Ok",
                      ![id].connected_peers =
                          IF tasks[id].block_validity /\ tasks[id].is_non_sync
                          THEN connected_peers ELSE {},
                      ![id].sent_to =
                          IF tasks[id].block_validity /\ tasks[id].is_non_sync
                          THEN propagate_block(connected_peers, tasks[id].remote_address)
                          ELSE {}]
    /\ UNCHANGED <<ledgerVars, agentVars, minerVars, unitVars, node_state, miner_parent, advanced>>

NextNode ==
    \/ StartMining
    \/ \E id \in 1..MaxTasks, remote_address \in Senders,
          block \in NodeBlockIds \cup {BigBlock}, is_non_sync \in BOOLEAN :
          ReceivedBlock(id, remote_address, block, is_non_sync)
    \/ \E id \in 1..MaxTasks : TaskReadCanon(id)
    \/ \E id \in 1..MaxTasks : TaskReceiveBlock(id)
    \/ \E id \in 1..MaxTasks : TaskFinish(id)

SpecNode == InitNode /\ [][NextNode]_vars

(***************************************************************************)
(* The miner completing a list of candidate transactions with a coinbase.  *)
(***************************************************************************)
CandidateTxIds == {"t1", "t2", "d1", "cbA"}

CandidateLists == UNION {[1..n -> CandidateTxIds] : n \in 0..MaxCandidates}

\* The canon chains the miner may build on.
MinerCanons == {<<"G">>, <<"G", "A">>, <<"G", "A", "B", "C">>}

network_id == "testnet1"

network(t) == "testnet1"

\* create_coinbase_transaction leaving the fees out of the minted amount.
create_coinbase_transaction_reward_only(block_num, txs) ==
    IF \E i \in 1..Len(txs) : value_balance(txs[i]) < 0
    THEN [result |-> "CoinbaseTransactionAlreadyExists"]
    ELSE [result      |-> "Ok",
          transaction |-> [id            |-> "coinbase",
                           value_balance |-> 0 - get_block_reward(block_num)]]

\* The coinbase pays the block reward plus the candidates' value balances
\* to the recipient, so its own value balance is minus that amount.
create_coinbase_transaction(block_num, txs) ==
    IF \E i \in 1..Len(txs) : value_balance(txs[i]) < 0
    THEN [result |-> "CoinbaseTransactionAlreadyExists"]
    ELSE LET total == get_block_reward(block_num) + total_value_balance(txs)
         IN  [result      |-> "Ok",
              transaction |-> [id |-> "coinbase", value_balance |-> 0 - total]]

add_coinbase_transaction(s, txs) ==
    LET listed == [i \in 1..Len(txs) |->
                      [id |-> txs[i], value_balance |-> value_balance(txs[i])]]
    IN  IF \E i \in 1..Len(txs) : network(txs[i]) # network_id
        THEN [result |-> "ConflictingNetworkId", transactions |-> listed]
        ELSE LET out == create_coinbase_transaction(block_height(s) + 1, txs)
             IN  IF out.result # "Ok"
                 THEN [result |-> out.result, transactions |-> listed]
                 ELSE [result |-> "Ok", transactions |-> Append(listed, out.transaction)]

InitMiner ==
    /\ \E c \in MinerCanons :
        /\ canon = c
        /\ stored = Range(c)
        /\ sns = UNION {block_serial_numbers(b) : b \in Range(c)}
    /\ memory_pool = {}
    /\ last = NoCall
    /\ received = {}
    /\ calls = 0
    /\ batch_used = FALSE
    /\ AgentOff
    /\ NodeOff
    /\ UnitsOff
    /\ miner_pc = "idle"
    /\ candidates \in CandidateLists
    /\ assembled = [result |-> "None"]

AddCoinbaseTransaction ==
    /\ miner_pc = "idle"
    /\ assembled' = add_coinbase_transaction(Ledger, candidates)
    /\ miner_pc' = "done"
    /\ UNCHANGED <<ledgerVars, agentVars, nodeVars, unitVars, candidates>>

NextMiner == AddCoinbaseTransaction

SpecMiner == InitMiner /\ [][NextMiner]_vars

(***************************************************************************)
(* The miner mining a block, step by step, while blocks are received.      *)
(***************************************************************************)
\* The readings of the local clock.
Clock == 0..MaxClock

\* The candidate lists the memory pool may hand out.
get_candidates(s) ==
    {txs \in CandidateLists :
        /\ \A i \in 1..Len(txs) : txs[i] \in s.pool
        /\ \A i, j \in 1..Len(txs) : i # j => txs[i] # txs[j]}

\* The height of a block: the number of its ancestors.
RECURSIVE header_height(_)
header_height(b) ==
    IF is_genesis(b) THEN 0 ELSE 1 + header_height(previous_block_hash(b))

\* find_block: the header is stamped with the clock reading.
find_block(parent_header, now) ==
    [previous_block_hash |-> parent_header, time |-> now]

InitMining ==
    /\ stored = {GenesisBlock}
    /\ canon = <<GenesisBlock>>
    /\ sns = block_serial_numbers(GenesisBlock)
    /\ memory_pool = {}
    /\ last = NoCall
    /\ received = {}
    /\ calls = 0
    /\ batch_used = FALSE
    /\ AgentOff
    /\ NodeOff
    /\ UnitsOff
    /\ miner_pc = "fetch"
    /\ candidates = <<>>
    /\ assembled = [result |-> "None"]

\* mine_block: fetch_memory_pool_transactions.
MinerFetch ==
    /\ miner_pc = "fetch"
    /\ candidates' \in get_candidates(Ledger)
    /\ miner_pc' = "coinbase"
    /\ UNCHANGED <<ledgerVars, agentVars, nodeVars, unitVars, assembled>>

\* establish_block: add_coinbase_transaction reads the ledger height.
MinerAddCoinbase ==
    /\ miner_pc = "coinbase"
    /\ LET out == add_coinbase_transaction(Ledger, candidates)
       IN  /\ assembled' = [result       |-> out.result,
                            transactions |-> out.transactions,
                            block_num    |-> block_height(Ledger) + 1]
           /\ miner_pc' = IF out.result = "Ok" THEN "verify" ELSE "failed"
    /\ UNCHANGED <<ledgerVars, agentVars, nodeVars, unitVars, candidates>>

\* establish_block: assert!(verify_transactions(..)) against the ledger.
MinerVerify ==
    /\ miner_pc = "verify"
    /\ miner_pc' = IF verify_transactions(Ledger, candidates) THEN "parent" ELSE "failed"
    /\ assembled' = IF verify_transactions(Ledger, candidates)
                    THEN assembled
                    ELSE [assembled EXCEPT !.result = "Panic"]
    /\ UNCHANGED <<ledgerVars, agentVars, nodeVars, unitVars, candidates>>

\* establish_block: the parent header is the latest block read now.
MinerReadParent ==
    /\ miner_pc = "parent"
    /\ assembled' = [result       |-> assembled.result,
                     transactions |-> assembled.transactions,
                     block_num    |-> assembled.block_num,
                     parent       |-> latest_block(Ledger)]
    /\ miner_pc' = "find"
    /\ UNCHANGED <<ledgerVars, agentVars, nodeVars, unitVars, candidates>>

\* mine_block: find_block.
MinerFindBlock(now) ==
    /\ miner_pc = "find"
    /\ assembled' = [result       |-> assembled.result,
                     transactions |-> assembled.transactions,
                     block_num    |-> assembled.block_num,
                     parent       |-> assembled.parent,
                     header       |-> find_block(assembled.parent, now)]
    /\ miner_pc' = "mined"
    /\ UNCHANGED <<ledgerVars, agentVars, nodeVars, unitVars, candidates>>

NextMining ==
    \/ MinerFetch
    \/ MinerAddCoinbase
    \/ MinerVerify
    \/ MinerReadParent
    \/ \E now \in Clock : MinerFindBlock(now)
    \/ \E block \in NodeBlockIds : ReceiveBlock(block, FALSE)
    \/ \E t \in PoolTxIds : InsertTransaction(t)

SpecMining == InitMining /\ [][NextMining]_vars

(***************************************************************************)
(* The length-prefixed message codec.  The reading half and the writing    *)
(* half of a framed connection are exercised separately.                   *)
(***************************************************************************)
\* The byte values that occur: enough for the lengths around the maximum
\* and for the ids of a few messages.
Bytes == {0, 1, 2, 4}

ByteSeqs(n) == UNION {[1..k -> Bytes] : k \in 0..n}

u32_to_le_bytes(n) ==
    <<n % 256, (n \div 256) % 256, (n \div 65536) % 256, (n \div 16777216) % 256>>

u32_from_le_bytes(b) == b[1] + 256 * b[2] + 65536 * b[3] + 16777216 * b[4]

\* Message::serialize of a BlockResponse (id 1) with its data, and of a
\* Disconnect (id 4), which has no data.
SerializedMessages ==
    {<<1, 0>> \o data : data \in ByteSeqs(MaxMessageSize)} \cup {<<4, 0>>}

\* Message::deserialize: the outcome for a buffer.  Fixed-size fields are
\* sliced out of the data without a length test; the other data is parsed,
\* which fails on empty data.
deserialize(buffer) ==
    IF Len(buffer) < 2 THEN "Err"
    ELSE LET id       == buffer[1] + 256 * buffer[2]
             data_len == Len(buffer) - 2
         IN  CASE id = 0        -> IF data_len < 8 THEN "Panic" ELSE "Some"
               [] id = 2        -> IF data_len < 6 THEN "Panic" ELSE "Some"
               [] id = 7        -> IF data_len < 4 THEN "Panic" ELSE "Some"
               [] id \in {4, 5} -> IF data_len = 0 THEN "Some" ELSE "Err"
               [] id \in {1, 3, 6, 8, 9, 10} -> IF data_len = 0 THEN "Err" ELSE "Some"
               [] OTHER         -> "Err"

encode(dst, buffer) ==
    IF Len(buffer) > MaxMessageSize
    THEN [result |-> "TooLarge", dst |-> dst]
    ELSE [result |-> "Ok", dst |-> dst \o u32_to_le_bytes(Len(buffer)) \o buffer]

\* decode without the test of the length marker.
decode_without_limit(source) ==
    IF Len(source) < 4
    THEN [result |-> "None", source |-> source, frame |-> <<>>]
    ELSE LET length == u32_from_le_bytes(SubSeq(source, 1, 4))
         IN  IF Len(source) < 4 + length
             THEN [result |-> "None", source |-> source, frame |-> <<>>]
             ELSE LET buffer == SubSeq(source, 5, 4 + length)
                  IN  [result |-> deserialize(buffer),
                       source |-> SubSeq(source, 5 + length, Len(source)),
                       frame  |-> buffer]

decode(source) ==
    IF Len(source) < 4
    THEN [result |-> "None", source |-> source, frame |-> <<>>]
    ELSE LET length == u32_from_le_bytes(SubSeq(source, 1, 4))
         IN  IF length > MaxMessageSize
             THEN [result |-> "TooLarge", source |-> source, frame |-> <<>>]
             ELSE IF Len(source) < 4 + length
             THEN [result |-> "None", source |-> source, frame |-> <<>>]
             ELSE LET buffer == SubSeq(source, 5, 4 + length)
                  IN  [result |-> deserialize(buffer),
                       source |-> SubSeq(source, 5 + length, Len(source)),
                       frame  |-> buffer]

SystemOff ==
    /\ stored = {GenesisBlock}
    /\ canon = <<GenesisBlock>>
    /\ sns = block_serial_numbers(GenesisBlock)
    /\ memory_pool = {}
    /\ last = NoCall
    /\ received = {}
    /\ calls = 0
    /\ batch_used = FALSE
    /\ AgentOff
    /\ NodeOff
    /\ MinerOff

systemVars == <<ledgerVars, agentVars, nodeVars, minerVars>>

InitCodec ==
    /\ SystemOff
    /\ codec \in {[pc |-> "reading", source |-> s, dst |-> <<>>, last |-> [op |-> "none"]] :
                     s \in ByteSeqs(MaxBuffer)}
                \cup {[pc |-> "writing", source |-> <<>>, dst |-> <<>>, last |-> [op |-> "none"]]}
    /\ getblocks = [pc |-> "off"]
    /\ builder = [pc |-> "off"]
    /\ peer = [pc |-> "off"]
    /\ cache = [pc |-> "off"]

Encode(buffer) ==
    /\ codec.pc = "writing"
    /\ Len(codec.dst) <= MaxBuffer
    /\ LET out == encode(codec.dst, buffer)
       IN  codec' = [codec EXCEPT !.dst = out.dst,
                                  !.last = [op |-> "encode", pre |-> codec.dst,
                                            buffer |-> buffer, result |-> out.result]]
    /\ UNCHANGED <<systemVars, getblocks, builder, peer, cache>>

Decode ==
    /\ codec.pc = "reading"
    /\ LET out == decode(codec.source)
       IN  codec' = [codec EXCEPT !.source = out.source,
                                  !.last = [op |-> "decode", pre |-> codec.source,
                                            buffer |-> out.frame, result |-> out.result]]
    /\ UNCHANGED <<systemVars, getblocks, builder, peer, cache>>

NextCodec ==
    \/ \E buffer \in SerializedMessages : Encode(buffer)
    \/ Decode

SpecCodec == InitCodec /\ [][NextCodec]_vars

(***************************************************************************)
(* Serving a GetBlocks request.                                            *)
(***************************************************************************)
\* The hashes a peer can ask for: canon blocks, a stored side block and a
\* block the storage does not have.
RequestedHashes == {"G", "A", "S1", "C"}

HashLists(n) == UNION {[1..k -> RequestedHashes] : k \in 0..n}

Min(a, b) == IF a < b THEN a ELSE b

\* The time_received of the i-th (from 0) block of the response.
response_time_received(i, time_received) ==
    IF i = MAX_BLOCK_SYNC_COUNT - 1 THEN time_received ELSE "None"

\* storage.get_block_state: the height of a committed block.
block_state_height(s, hash) ==
    IF is_canon(s, hash) THEN get_block_number(s, hash) ELSE -1

InitGetBlocks ==
    /\ stored = {"G", "A", "S1"}
    /\ canon = <<"G", "A">>
    /\ sns = block_serial_numbers("G") \cup block_serial_numbers("A")
    /\ memory_pool = {}
    /\ last = NoCall
    /\ received = {}
    /\ calls = 0
    /\ batch_used = FALSE
    /\ AgentOff
    /\ NodeOff
    /\ MinerOff
    /\ codec = [pc |-> "off"]
    /\ getblocks \in {[pc |-> "serving", header_hashes |-> h, time_received |-> t,
                        i |-> 0, sent |-> <<>>, result |-> "none"] :
                         h \in HashLists(MAX_BLOCK_SYNC_COUNT + 1),
                         t \in {"None", "Some"}}
    /\ builder = [pc |-> "off"]
    /\ peer = [pc |-> "off"]
    /\ cache = [pc |-> "off"]

\* One turn of the loop of received_get_blocks: read the block and its
\* state, send the SyncBlock; a hash the storage does not have ends the
\* handler with the error.
SendSyncBlock ==
    /\ getblocks.pc = "serving"
    /\ getblocks.i < Min(Len(getblocks.header_hashes), MAX_BLOCK_SYNC_COUNT)
    /\ LET hash == getblocks.header_hashes[getblocks.i + 1]
       IN  getblocks' =
              IF ~contains_block_hash(Ledger, hash)
              THEN [getblocks EXCEPT !.pc = "done", !.result = "Err"]
              ELSE [getblocks EXCEPT
                      !.i = getblocks.i + 1,
                      !.sent = Append(getblocks.sent,
                                  [block  |-> hash,
                                   height |-> block_state_height(Ledger, hash),
                                   time_received |->
                                       response_time_received(getblocks.i,
                                                              getblocks.time_received)])]
    /\ UNCHANGED <<systemVars, codec, builder, peer, cache>>

\* The loop is over: Ok(()).
GetBlocksServed ==
    /\ getblocks.pc = "serving"
    /\ getblocks.i = Min(Len(getblocks.header_hashes), MAX_BLOCK_SYNC_COUNT)
    /\ getblocks' = [getblocks EXCEPT !.pc = "done", !.result = "Ok"]
    /\ UNCHANGED <<systemVars, codec, builder, peer, cache>>

NextGetBlocks == SendSyncBlock \/ GetBlocksServed

SpecGetBlocks == InitGetBlocks /\ [][NextGetBlocks]_vars

(***************************************************************************)
(* The transaction builders of the RPC crate: the kernel builder and the   *)
(* authorization builder have the same add_input, add_output and build.    *)
(***************************************************************************)
NUM_INPUT_RECORDS == 2

NUM_OUTPUT_RECORDS == 2

BuilderKinds == {"TransactionKernelBuilder", "TransactionAuthorizationBuilder"}

InputRecords == {"r1", "r2"}

OutputRecipients == {"o1"}

\* add_input: the result and the inputs of the returned builder.
add_input(inputs, input) ==
    IF Len(inputs) > NUM_INPUT_RECORDS
    THEN [result |-> "InvalidNumberOfInputs", list |-> inputs]
    ELSE [result |-> "Ok", list |-> Append(inputs, input)]

add_output(outputs, output) ==
    IF Len(outputs) > NUM_OUTPUT_RECORDS
    THEN [result |-> "InvalidNumberOfOutputs", list |-> outputs]
    ELSE [result |-> "Ok", list |-> Append(outputs, output)]

\* build: the results it can have; with the counts in range the kernel
\* construction itself can still fail.
build(inputs, outputs) ==
    IF Len(inputs) \notin {1, 2} THEN {"InvalidNumberOfInputs"}
    ELSE IF Len(outputs) = 0 THEN {"Message"}
    ELSE IF Len(outputs) \notin {1, 2} THEN {"InvalidNumberOfInputs"}
    ELSE {"Ok", "DPCError"}

InitBuilder ==
    /\ SystemOff
    /\ codec = [pc |-> "off"]
    /\ getblocks = [pc |-> "off"]
    /\ builder \in {[pc |-> "building", kind |-> k, inputs |-> <<>>, outputs |-> <<>>,
                      last |-> [op |-> "new"]] : k \in BuilderKinds}
    /\ peer = [pc |-> "off"]
    /\ cache = [pc |-> "off"]

\* A failed call has consumed the builder.
AddInput(input) ==
    /\ builder.pc = "building"
    /\ LET out == add_input(builder.inputs, input)
       IN  builder' = [builder EXCEPT
                         !.pc = IF out.result = "Ok" THEN "building" ELSE "dropped",
                         !.inputs = out.list,
                         !.last = [op |-> "add_input", result |-> out.result,
                                   inputs |-> builder.inputs,
                                   outputs |-> builder.outputs]]
    /\ UNCHANGED <<systemVars, codec, getblocks, peer, cache>>

AddOutput(output) ==
    /\ builder.pc = "building"
    /\ LET out == add_output(builder.outputs, output)
       IN  builder' = [builder EXCEPT
                         !.pc = IF out.result = "Ok" THEN "building" ELSE "dropped",
                         !.outputs = out.list,
                         !.last = [op |-> "add_output", result |-> out.result,
                                   inputs |-> builder.inputs,
                                   outputs |-> builder.outputs]]
    /\ UNCHANGED <<systemVars, codec, getblocks, peer, cache>>

Build ==
    /\ builder.pc = "building"
    /\ \E result \in build(builder.inputs, builder.outputs) :
          builder' = [builder EXCEPT
                        !.last = [op |-> "build", result |-> result,
                                  inputs |-> builder.inputs,
                                  outputs |-> builder.outputs]]
    /\ UNCHANGED <<systemVars, codec, getblocks, peer, cache>>

NextBuilder ==
    \/ \E input \in InputRecords : AddInput(input)
    \/ \E output \in OutputRecipients : AddOutput(output)
    \/ Build

SpecBuilder == InitBuilder /\ [][NextBuilder]_vars

(***************************************************************************)
(* A peer's run loop and the socket-reader task it spawns.  The two run    *)
(* on a multi-threaded runtime and interleave at their atomic operations.  *)
(***************************************************************************)
\* mpsc::channel(8)
ChannelCapacity == 8

\* The AtomicUsize counter wraps; its width is scaled down to 4 bits.
UsizeModulus == 16

fetch_add(count, n) == (count + n) % UsizeModulus

fetch_sub(count, n) == (count - n + UsizeModulus) % UsizeModulus

InitPeer ==
    /\ SystemOff
    /\ codec = [pc |-> "off"]
    /\ getblocks = [pc |-> "off"]
    /\ builder = [pc |-> "off"]
    /\ peer = [pc |-> "select", reader_pc |-> "read", read_channel |-> 0,
               queued_inbound_message_count |-> 0, handed |-> 0, taken |-> 0]
    /\ cache = [pc |-> "off"]

\* The reader hands a payload to the internal channel; the send has
\* returned, the counter is not yet updated.
ReaderSend ==
    /\ peer.reader_pc = "read"
    /\ peer.pc = "select"
    /\ peer.read_channel < ChannelCapacity
    /\ peer.handed < MaxPayloads
    /\ peer' = [peer EXCEPT !.reader_pc = "count",
                            !.read_channel = peer.read_channel + 1,
                            !.handed = peer.handed + 1]
    /\ UNCHANGED <<systemVars, codec, getblocks, builder, cache>>

\* The send fails once the run loop has dropped the receiver.
ReaderSendFails ==
    /\ peer.reader_pc = "read"
    /\ peer.pc = "exited"
    /\ peer' = [peer EXCEPT !.reader_pc = "stopped"]
    /\ UNCHANGED <<systemVars, codec, getblocks, builder, cache>>

\* queued_inbound_message_count.fetch_add(1) after a successful send.
ReaderCount ==
    /\ peer.reader_pc = "count"
    /\ peer' = [peer EXCEPT !.reader_pc = "read",
                            !.queued_inbound_message_count =
                                fetch_add(peer.queued_inbound_message_count, 1)]
    /\ UNCHANGED <<systemVars, codec, getblocks, builder, cache>>

\* The run loop takes a payload, decrements the counter and dispatches the
\* payload; an error of the dispatch returns from run at once.
RunReceive(dispatched) ==
    /\ peer.pc = "select"
    /\ peer.read_channel > 0
    /\ peer' = [peer EXCEPT !.pc = IF dispatched = "Ok" THEN "select" ELSE "exited",
                            !.read_channel = IF dispatched = "Ok"
                                             THEN peer.read_channel - 1
                                             ELSE 0,
                            !.taken = peer.taken + 1,
                            !.queued_inbound_message_count =
                                fetch_sub(peer.queued_inbound_message_count, 1)]
    /\ UNCHANGED <<systemVars, codec, getblocks, builder, cache>>

\* The loop breaks (the action channel closed or a Disconnect): the counter
\* is swapped to 0 and the receiver is dropped with what it still holds.
RunBreak ==
    /\ peer.pc = "select"
    /\ peer' = [peer EXCEPT !.pc = "exited",
                            !.read_channel = 0,
                            !.queued_inbound_message_count = 0]
    /\ UNCHANGED <<systemVars, codec, getblocks, builder, cache>>

NextPeer ==
    \/ ReaderSend
    \/ ReaderSendFails
    \/ ReaderCount
    \/ \E dispatched \in {"Ok", "Err"} : RunReceive(dispatched)
    \/ RunBreak

SpecPeer == InitPeer /\ [][NextPeer]_vars

(***************************************************************************)
(* The inbound cache of block payloads.                                    *)
(***************************************************************************)
BlockPayloads == {"b1", "b2", "b3", "b4", "b5", "b6"}

\* hash64 of the block bytes; two payloads can have one hash.
hash64(bytes) ==
    CASE bytes = "b1" -> 1
      [] bytes = "b2" -> 2
      [] bytes = "b3" -> 3
      [] bytes = "b4" -> 4
      [] bytes = "b5" -> 5
      [] OTHER        -> 1

\* CircularQueue::push: a full queue drops its oldest element.
push(queue, e) ==
    IF Len(queue) = CacheCapacity THEN Append(Tail(queue), e) ELSE Append(queue, e)

\* contains recording the hash on every call.
contains_always_push(queue, payload) ==
    LET hash == hash64(payload)
    IN  IF \E i \in 1..Len(queue) : queue[i] = hash
        THEN [result |-> TRUE, queue |-> push(queue, hash)]
        ELSE [result |-> FALSE, queue |-> push(queue, hash)]

contains(queue, payload) ==
    LET hash == hash64(payload)
    IN  IF \E i \in 1..Len(queue) : queue[i] = hash
        THEN [result |-> TRUE, queue |-> queue]
        ELSE [result |-> FALSE, queue |-> push(queue, hash)]

InitCache ==
    /\ SystemOff
    /\ codec = [pc |-> "off"]
    /\ getblocks = [pc |-> "off"]
    /\ builder = [pc |-> "off"]
    /\ peer = [pc |-> "off"]
    /\ cache = [pc |-> "on", queue |-> <<>>, last |-> [op |-> "default"]]

Contains(payload) ==
    /\ cache.pc = "on"
    /\ LET out == contains(cache.queue, payload)
       IN  cache' = [cache EXCEPT !.queue = out.queue,
                                  !.last = [op |-> "contains", payload |-> payload,
                                            result |-> out.result,
                                            queue |-> cache.queue]]
    /\ UNCHANGED <<systemVars, codec, getblocks, builder, peer>>

NextCache == \E payload \in BlockPayloads : Contains(payload)

SpecCache == InitCache /\ [][NextCache]_vars

(***************************************************************************)
(* Properties.                                                             *)
(***************************************************************************)
IsCall == last.block # NoHash

PreLedger == [stored |-> last.pre.stored, canon |-> last.pre.canon,
              sns |-> last.pre.sns, pool |-> last.pre.pool, log |-> <<>>]

LogBlocks == [i \in 1..Len(last.log) |-> last.log[i].block]

\* C1: no block is canon at two heights, and every block a call commits is
\* the canon block at the height read right after its commit, that height
\* being one more than the height read before it; the canon height on
\* return is the height of the last block committed.
C1_CanonHashMatchesAcceptedBlock ==
    /\ \A i, j \in 1..Len(canon) : canon[i] = canon[j] => i = j
    /\ IsCall =>
         \A i \in 1..Len(last.log) :
            LET e == last.log[i]
            IN  /\ e.after = e.before + 1
                /\ get_block_hash(Ledger, e.after) = e.block
                /\ i > 1 => e.before = last.log[i - 1].after
                /\ i = Len(last.log) => block_height(Ledger) = e.after

C1_Witness ==
    /\ IsCall
    /\ last.result = "Ok"
    /\ Len(last.log) >= 2

C3_CommittedBlockResubmittedSucceeds ==
    (IsCall /\ last.block \in Range(last.pre.canon)) =>
        /\ last.result = "Ok"
        /\ block_height(Ledger) = block_height(PreLedger)

\* C4: a non-genesis block whose parent is neither stored nor canon,
\* received by a non-empty ledger, is stored, the call succeeds, and canon
\* chain (height and tip), serial numbers and memory pool are unchanged.
C4_OrphanIsStoredOnly ==
    (/\ IsCall
     /\ ~is_genesis(last.block)
     /\ previous_block_hash(last.block) \notin last.pre.stored
     /\ previous_block_hash(last.block) \notin Range(last.pre.canon)
     /\ last.pre.canon # <<>>) =>
        /\ last.result = "Ok"
        /\ stored = last.pre.stored \cup {last.block}
        /\ canon = last.pre.canon
        /\ sns = last.pre.sns
        /\ memory_pool = last.pre.pool
        /\ last.log = <<>>

C4_Witness ==
    /\ IsCall
    /\ last.branch = "Orphan"
    /\ last.block \notin last.pre.stored
    /\ last.block \in stored
    /\ memory_pool # {}

\* C5 (as stated): when a call commits the received block P and a child of
\* P was stored before the call, then on return every block of the longest
\* child path of P is canon, in path order, and the last one is the tip.
C5_ParentArrivalCommitsStoredDescendants ==
    (/\ IsCall
     /\ \E i \in 1..Len(last.log) : last.log[i].block = last.block
     /\ \E x \in last.pre.stored : previous_block_hash(x) = last.block) =>
        /\ latest_block(Ledger) = last.child_path[Len(last.child_path)]
        /\ \A i \in 1..Len(last.child_path) :
              get_block_hash(Ledger, block_height(Ledger) - Len(last.child_path) + i)
                  = last.child_path[i]

\* C5 (amended): when a block P that extends the canon tip is received
\* with batch_import = false and the call returns success, the blocks
\* committed by the call are exactly the longest child path of P the
\* ledger returned, in parent-before-child order on top of the old canon
\* chain, so the canon tip is the last block of that path.
C5_CanonExtensionFastForwards ==
    (/\ IsCall
     /\ last.branch = "CanonChain"
     /\ ~last.batch_import
     /\ last.result = "Ok") =>
        /\ canon = last.pre.canon \o last.child_path
        /\ LogBlocks = last.child_path
        /\ latest_block(Ledger) = last.child_path[Len(last.child_path)]

C5_Witness ==
    /\ IsCall
    /\ last.branch = "CanonChain"
    /\ ~last.batch_import
    /\ last.result = "Ok"
    /\ Len(last.child_path) >= 3
    /\ \E x \in last.pre.stored : previous_block_hash(x) = last.block

\* C6: once A, B and C have each been delivered exactly once (no batch
\* import) to a ledger holding G, the canon chain is G, A, B, C and no
\* other block is stored, whatever the delivery order.
C6_AnyDeliveryOrderReachesSameTip ==
    (/\ received = {"A", "B", "C"}
     /\ calls = 3
     /\ ~batch_used) =>
        /\ canon = <<"G", "A", "B", "C">>
        /\ stored = {"G", "A", "B", "C"}

\* The canon sum above the shared block, recomputed from the chain as it
\* was before the call.
PreCanonAbove(shared) ==
    [i \in 1..(Len(last.pre.canon) - (shared + 1)) |-> last.pre.canon[shared + 1 + i]]

\* C7: on the side-chain branch the canon blocks above the common ancestor
\* are decommitted if and only if the side path's summed difficulty is
\* strictly greater than the canon sum above the same ancestor; on a tie
\* or a lower sum the block is only stored and the canon chain is unchanged.
C7_SideChainForkIffStrictlyHeavier ==
    (IsCall /\ last.branch = "SideChain") =>
        LET shared    == last.side.shared_block_number
            side_sum  == aggregate_target(last.side.path)
            canon_sum == aggregate_target(PreCanonAbove(shared))
        IN  IF side_sum > canon_sum
            THEN /\ \A b \in Range(PreCanonAbove(shared)) : ~is_canon(Ledger, b)
                 /\ SubSeq(canon, 1, shared + 1) = SubSeq(last.pre.canon, 1, shared + 1)
                 /\ last.result = "Ok" =>
                        canon = SubSeq(last.pre.canon, 1, shared + 1) \o last.side.path
            ELSE /\ canon = last.pre.canon
                 /\ stored = last.pre.stored \cup {last.block}
                 /\ ~is_canon(Ledger, last.block)
                 /\ last.result = "Ok"

C7_Witness ==
    /\ IsCall
    /\ last.branch = "SideChain"
    /\ last.side.aggregate_difficulty = last.canon_difficulty
    /\ last.canon_difficulty > 0
    /\ canon = last.pre.canon

\* C8 (as stated): a side chain displaces canon only when its summed
\* difficulty_target since the common ancestor is lower than canon's.
C8_LowerTargetSumWins ==
    (IsCall /\ last.branch = "SideChain" /\ canon # last.pre.canon) =>
        last.side.aggregate_difficulty < last.canon_difficulty

\* C8 (amended): the two weights compared are the sums of the headers'
\* difficulty_target over the side path and over the canon blocks above
\* the common ancestor, and the numerically higher sum wins: the canon
\* chain changes only when the side sum is strictly greater, and never
\* when it is lower.
C8_HigherTargetSumWins ==
    (IsCall /\ last.branch = "SideChain") =>
        /\ last.side.aggregate_difficulty = aggregate_target(last.side.path)
        /\ last.canon_difficulty =
               aggregate_target(PreCanonAbove(last.side.shared_block_number))
        /\ canon # last.pre.canon =>
               last.side.aggregate_difficulty > last.canon_difficulty
        /\ last.side.aggregate_difficulty < last.canon_difficulty =>
               canon = last.pre.canon

C8_Witness ==
    /\ IsCall
    /\ last.branch = "SideChain"
    /\ canon # last.pre.canon
    /\ last.canon_difficulty > 0
    /\ last.side.aggregate_difficulty > last.canon_difficulty

\* C9: after a successful reorganization onto the path p1..pk with common
\* ancestor at height s, the canon height is s+k, the canon block at
\* height s+i is p_i, the chain up to height s is untouched, and every
\* block that was canon above s is no longer canon but still stored.
C9_ReorgInstallsSideChainPath ==
    (IsCall /\ last.forked /\ last.result = "Ok") =>
        LET s == last.side.shared_block_number
            k == Len(last.side.path)
        IN  /\ block_height(Ledger) = s + k
            /\ \A i \in 1..k : get_block_hash(Ledger, s + i) = last.side.path[i]
            /\ \A h \in 0..s : get_block_hash(Ledger, h) = get_block_hash(PreLedger, h)
            /\ \A b \in Range(PreCanonAbove(s)) :
                  ~is_canon(Ledger, b) /\ contains_block_hash(Ledger, b)

C9_Witness ==
    /\ IsCall
    /\ last.forked
    /\ last.result = "Ok"
    /\ Len(last.side.path) >= 2
    /\ Len(last.pre.canon) >= last.side.shared_block_number + 3

\* C10: when a block of the side path fails validation during a
\* reorganization, the call returns an error and the canon chain and the
\* serial numbers are what they were before the call.
C10_FailedReorgRestoresCanon ==
    (IsCall /\ last.forked /\ last.result # "Ok") =>
        /\ canon = last.pre.canon
        /\ sns = last.pre.sns

CanonTransactions == UNION {Range(transactions(canon[i])) : i \in 1..Len(canon)}

\* C11: after a reorganization, every transaction of every block that the
\* call removed from the canon chain is in a block of the new canon chain
\* or in the memory pool.
C11_DecommittedTransactionsReturnToPool ==
    (IsCall /\ last.forked /\ last.result = "Ok") =>
        \A b \in Range(PreCanonAbove(last.side.shared_block_number)) :
            \A t \in Range(transactions(b)) :
                t \in CanonTransactions \/ t \in memory_pool

\* C12: when a call returns, no transaction of a block it committed is in
\* the memory pool, and no transaction is both in a canon block and in the
\* memory pool.
C12_CommittedTransactionsLeavePool ==
    /\ IsCall => \A i \in 1..Len(last.log) :
                    Range(transactions(last.log[i].block)) \cap memory_pool = {}
    /\ CanonTransactions \cap memory_pool = {}

C12_Witness ==
    /\ IsCall
    /\ last.result = "Ok"
    /\ \E i \in 1..Len(last.log) :
          Range(transactions(last.log[i].block)) \cap last.pre.pool # {}
    /\ memory_pool # {}

\* C13: for every canon block at a height h above genesis, the value
\* balances of its transactions and the block reward of h sum to zero.
C13_CanonBlocksBalanceToZero ==
    \A i \in 2..Len(canon) :
        total_value_balance(transactions(canon[i])) + get_block_reward(i - 1) = 0

\* C14: no block with two or more coinbase transactions is ever committed,
\* and no block without a coinbase transaction is committed at a height
\* above 0.
C14_CommittedBlocksHaveOneCoinbase ==
    \A i \in 1..Len(canon) :
        /\ coinbase_transaction_count(transactions(canon[i])) < 2
        /\ i - 1 > 0 => coinbase_transaction_count(transactions(canon[i])) >= 1

\* The (height, index) positions of the transactions of the canon chain.
CanonPositions ==
    {<<i, j>> \in (1..Len(canon)) \X (1..3) : j <= Len(transactions(canon[i]))}

\* C15: no serial number is spent by two different transactions of the
\* canon chain, two transactions of the same block included.
C15_SerialNumbersSpentOnce ==
    \A p, q \in CanonPositions :
        p # q => old_serial_number(transactions(canon[p[1]])[p[2]])
                     # old_serial_number(transactions(canon[q[1]])[q[2]])

\* C16: the actor answers the commands in the order they arrived, each
\* exactly once and before it takes the next one; while it handles a
\* command every earlier command has been answered and no later one has
\* been taken; a ReceiveBlock command is answered true when the call
\* succeeded and false when it failed.
C16_CommandsHandledOneAtATime ==
    /\ \A i \in 1..Len(replies) : replies[i].id = i
    /\ agent_pc = "recv" => Len(replies) = sent - Len(channel)
    /\ agent_pc = "handle" => /\ current.id = sent - Len(channel)
                              /\ Len(replies) = current.id - 1
    /\ \A i \in 1..Len(channel) : channel[i].id = sent - Len(channel) + i
    /\ (IsCall /\ agent_pc = "recv" /\ replies # <<>>) =>
           /\ replies[Len(replies)].msg = [kind |-> "ReceiveBlock", arg |-> last.block]
           /\ replies[Len(replies)].value = (last.result = "Ok")

C16_Witness ==
    \E i \in 1..(Len(replies) - 1) :
        /\ replies[i].msg.kind = "ReceiveBlock"
        /\ replies[i].value = FALSE
        /\ replies[i + 1].msg.kind = "ReceiveBlock"
        /\ replies[i + 1].value = TRUE

\* A block that is canon before the step is not canon after it.
Decommits == \E i \in 1..Len(canon) : \A j \in 1..Len(canon') : canon'[j] # canon[i]

\* C17 (as stated): a block leaves the canon chain only in a
\* reorganization made while a block is being received.
C17_BlocksLeaveCanonOnlyByReorg ==
    [][Decommits => /\ agent_pc = "handle"
                    /\ current.msg.kind = "ReceiveBlock"
                    /\ last'.forked]_vars

\* C17 (amended): a block leaves the canon chain only in a reorganization
\* onto a strictly heavier side chain while a block is being received, or
\* when the actor handles a ForceDecommit command, or in the max_head step
\* of node start-up.
C17_BlocksLeaveCanonByReorgOrForcedDecommit ==
    [][Decommits =>
          \/ /\ agent_pc = "handle"
             /\ current.msg.kind = "ReceiveBlock"
             /\ last'.forked
             /\ last'.side.aggregate_difficulty > last'.canon_difficulty
          \/ /\ agent_pc = "handle"
             /\ current.msg.kind = "ForceDecommit"
          \/ agent_pc = "startup"]_vars

C17_Witness ==
    /\ \E i \in 1..Len(replies) :
          replies[i].msg.kind = "ForceDecommit" /\ replies[i].value = "Ok"
    /\ IsCall
    /\ last.forked

\* C18: when the genesis block is handed to receive_block on a ledger
\* without blocks, it is the canon block at height 0 when the call returns.
C18_GenesisOnEmptyLedgerIsCommitted ==
    (IsCall /\ last.pre.canon = <<>> /\ is_genesis(last.block)) =>
        /\ canon = <<last.block>>
        /\ get_block_hash(Ledger, 0) = last.block

\* C19: once a task has returned whose call made a child of the miner's
\* snapshot parent canon while the node was mining, the stop flag is set;
\* and the flag is set only after an accepted block.
C19_TipAdvanceSetsTerminator ==
    /\ \A id \in advanced : tasks[id].pc = "done" => terminator = TRUE
    /\ terminator = TRUE =>
           \E id \in 1..MaxTasks : tasks[id].pc = "done" /\ tasks[id].block_validity

RECURSIVE SumOfBalances(_)
SumOfBalances(txs) ==
    IF txs = <<>> THEN 0 ELSE Head(txs).value_balance + SumOfBalances(Tail(txs))

\* C20: when a candidate has a negative value balance the miner fails with
\* CoinbaseTransactionAlreadyExists; otherwise the assembled list is the
\* candidates followed by one coinbase, the only transaction with a
\* negative value balance, and the coinbase mints the block reward of the
\* parent's height plus one plus the candidates' value balances.
C20_MinerAppendsOneCoinbase ==
    miner_pc = "done" =>
        IF \E i \in 1..Len(candidates) : value_balance(candidates[i]) < 0
        THEN assembled.result = "CoinbaseTransactionAlreadyExists"
        ELSE LET txs == assembled.transactions
                 n   == Len(candidates)
             IN  /\ assembled.result = "Ok"
                 /\ Len(txs) = n + 1
                 /\ \A i \in 1..n : txs[i].id = candidates[i] /\ txs[i].value_balance >= 0
                 /\ txs[n + 1].value_balance < 0
                 /\ SumOfBalances(txs) + get_block_reward(Len(canon)) = 0

C20_Witness ==
    /\ miner_pc = "done"
    /\ assembled.result = "Ok"
    /\ Len(candidates) = 2
    /\ Len(canon) = 4
    /\ assembled.transactions[3].value_balance = -4

\* C21: the timestamp of a mined header is strictly greater than the
\* timestamp of its parent header, whatever the clock reads.
C21_MinedTimestampAfterParent ==
    miner_pc = "mined" =>
        assembled.header.time > block_time(assembled.header.previous_block_hash)

\* C27: the block number the coinbase reward was computed for is the
\* height of the parent header the block is mined on, plus one.
C27_CoinbaseHeightMatchesParent ==
    miner_pc \in {"find", "mined"} =>
        assembled.block_num = header_height(assembled.parent) + 1

\* C22: encode refuses a buffer above the maximum and writes nothing,
\* and otherwise appends the 4-byte length and the buffer; decode fails
\* whenever the length marker is above the maximum, returns no message and
\* leaves the source as it was while the frame is incomplete, and removes
\* exactly 4 + length bytes when the frame is complete.
C22_FramesWithinMaximum ==
    /\ codec.last.op = "encode" =>
          LET n == Len(codec.last.buffer)
          IN  IF n > MaxMessageSize
              THEN codec.last.result = "TooLarge" /\ codec.dst = codec.last.pre
              ELSE /\ codec.last.result = "Ok"
                   /\ Len(codec.dst) = Len(codec.last.pre) + 4 + n
                   /\ \A i \in 1..n : codec.dst[Len(codec.last.pre) + 4 + i] = codec.last.buffer[i]
                   /\ \E k \in 0..MaxMessageSize :
                         /\ k = n
                         /\ codec.dst[Len(codec.last.pre) + 1] = k
                         /\ \A i \in 2..4 : codec.dst[Len(codec.last.pre) + i] = 0
    /\ codec.last.op = "decode" =>
          LET pre == codec.last.pre
          IN  IF Len(pre) < 4
              THEN codec.last.result = "None" /\ codec.source = pre
              ELSE LET marker_high == pre[2] # 0 \/ pre[3] # 0 \/ pre[4] # 0
                       length      == pre[1]
                   IN  IF marker_high \/ length > MaxMessageSize
                       THEN codec.last.result = "TooLarge" /\ codec.source = pre
                       ELSE IF Len(pre) < 4 + length
                       THEN codec.last.result = "None" /\ codec.source = pre
                       ELSE /\ codec.last.result \in {"Some", "Err", "Panic"}
                            /\ Len(codec.last.buffer) = length
                            /\ Len(codec.source) = Len(pre) - (4 + length)
                            /\ \A i \in 1..Len(codec.source) :
                                  codec.source[i] = pre[4 + length + i]

C22_Witness ==
    /\ codec.last.op = "decode"
    /\ codec.last.result = "Some"
    /\ Len(codec.last.pre) > 4 + Len(codec.last.buffer)
    /\ codec.source # <<>>

\* C23: a received block is sent on only by a task that handled a Block
\* message whose block the consensus engine accepted, and then to every
\* connected peer except the one it came from; a rejected block, a block
\* above the maximum size and a SyncBlock are sent to nobody.
C23_OnlyAcceptedBlocksPropagate ==
    \A id \in 1..Len(tasks) :
        LET task == tasks[id]
        IN  IF /\ task.pc = "done"
               /\ task.is_non_sync
               /\ block_size(task.block) <= max_block_size
               /\ task.block_validity
            THEN /\ task.block \in stored
                 /\ task.sent_to = task.connected_peers \ {task.remote_address}
            ELSE task.sent_to = {}

C23_Witness ==
    \E id \in 1..Len(tasks) :
        /\ tasks[id].pc = "done"
        /\ tasks[id].remote_address \in tasks[id].connected_peers
        /\ tasks[id].sent_to = Peers \ {tasks[id].remote_address}
        /\ \E other \in 1..Len(tasks) :
              /\ tasks[other].pc = "done"
              /\ tasks[other].is_non_sync
              /\ tasks[other].result = "Ok"
              /\ ~tasks[other].block_validity

\* C24: whenever receive_block calls get_delta_percentage, the aggregate
\* difficulty of the side chain is strictly greater than the canon
\* difficulty it is compared with, so the subtraction does not underflow.
C24_DeltaOnlyForHeavierSideChain ==
    (IsCall /\ last.delta.called) =>
        /\ last.delta.side_chain_diff = last.side.aggregate_difficulty
        /\ last.delta.canon_diff = last.canon_difficulty
        /\ last.delta.side_chain_diff > last.delta.canon_diff
        /\ ~last.delta.underflow
        /\ last.delta.delta > 0

C24_Witness ==
    /\ IsCall
    /\ last.delta.called
    /\ last.delta.canon_diff > 0
    /\ last.delta.delta > 0

\* C25: a served GetBlocks request has produced at most
\* MAX_BLOCK_SYNC_COUNT SyncBlock messages, in the order of the requested
\* hashes, and for a request of 1 to MAX_BLOCK_SYNC_COUNT hashes the
\* request's receive time is attached to the last message and to no other.
C25_ReceiveTimeOnLastBlock ==
    (getblocks.pc = "done" /\ getblocks.result = "Ok") =>
        LET n == Len(getblocks.sent)
        IN  /\ n <= MAX_BLOCK_SYNC_COUNT
            /\ n = Min(Len(getblocks.header_hashes), MAX_BLOCK_SYNC_COUNT)
            /\ \A i \in 1..n : getblocks.sent[i].block = getblocks.header_hashes[i]
            /\ Len(getblocks.header_hashes) \in 1..MAX_BLOCK_SYNC_COUNT =>
                  /\ getblocks.sent[n].time_received = getblocks.time_received
                  /\ \A i \in 1..(n - 1) : getblocks.sent[i].time_received = "None"

\* C26: a builder never holds more than NUM_INPUT_RECORDS inputs or
\* NUM_OUTPUT_RECORDS outputs; add_input on a builder that holds
\* NUM_INPUT_RECORDS inputs fails with InvalidNumberOfInputs and adds
\* nothing, and likewise add_output; build succeeds only with 1 or 2 inputs
\* and 1 or 2 outputs.
C26_BuilderWithinRecordLimits ==
    builder.pc # "off" =>
        /\ Len(builder.inputs) <= NUM_INPUT_RECORDS
        /\ Len(builder.outputs) <= NUM_OUTPUT_RECORDS
        /\ (builder.last.op = "add_input"
              /\ Len(builder.last.inputs) >= NUM_INPUT_RECORDS) =>
                 /\ builder.last.result = "InvalidNumberOfInputs"
                 /\ builder.inputs = builder.last.inputs
        /\ (builder.last.op = "add_output"
              /\ Len(builder.last.outputs) >= NUM_OUTPUT_RECORDS) =>
                 /\ builder.last.result = "InvalidNumberOfOutputs"
                 /\ builder.outputs = builder.last.outputs
        /\ (builder.last.op = "build" /\ builder.last.result = "Ok") =>
                 /\ Len(builder.inputs) \in 1..NUM_INPUT_RECORDS
                 /\ Len(builder.outputs) \in 1..NUM_OUTPUT_RECORDS

\* C28: while the reader is not between its send and its count, the
\* counter equals the number of payloads in the internal channel; the
\* counter never wraps below zero, that is it never exceeds the number of
\* payloads handed over; and it is 0 once the run loop has exited.
C28_InboundCountMatchesChannel ==
    peer.pc # "off" =>
        /\ (peer.pc = "select" /\ peer.reader_pc = "read") =>
               peer.queued_inbound_message_count = peer.read_channel
        /\ peer.queued_inbound_message_count <= peer.handed
        /\ peer.pc = "exited" => peer.queued_inbound_message_count = 0

\* C29: the cache holds at most CacheCapacity hashes and none of them
\* twice; contains returns true exactly when the payload's hash was held,
\* and then leaves the cache as it was; otherwise it returns false and
\* the hash is appended, the oldest entry leaving when the cache was full.
C29_CacheBoundedWithoutDuplicates ==
    cache.pc # "off" =>
        /\ Len(cache.queue) <= CacheCapacity
        /\ \A i, j \in 1..Len(cache.queue) : cache.queue[i] = cache.queue[j] => i = j
        /\ cache.last.op = "contains" =>
              LET hash == hash64(cache.last.payload)
                  pre  == cache.last.queue
              IN  IF hash \in Range(pre)
                  THEN cache.last.result = TRUE /\ cache.queue = pre
                  ELSE /\ cache.last.result = FALSE
                       /\ cache.queue =
                             IF Len(pre) = CacheCapacity
                             THEN SubSeq(pre, 2, Len(pre)) \o <<hash>>
                             ELSE pre \o <<hash>>

C29_Witness ==
    /\ cache.pc = "on"
    /\ cache.last.op = "contains"
    /\ cache.last.result = FALSE
    /\ Len(cache.last.queue) = CacheCapacity
    /\ Len(cache.queue) = CacheCapacity
    /\ cache.last.queue[1] \notin Range(cache.queue)

\* C30 as stated: a call for a block that extends the canon tip commits
\* exactly that block when batch_import is set, and the whole longest child
\* path when it is not.
C30_BatchImportCommitsOneBlock ==
    (IsCall /\ last.branch = "CanonChain") =>
        IF last.batch_import
        THEN canon = Append(last.pre.canon, last.block)
        ELSE canon = last.pre.canon \o last.child_path

\* C30: a successful call for a block that extends the canon tip with
\* batch_import set commits exactly that block (the height grows by 1)
\* and leaves every stored child of it off the canon chain; a successful
\* call without batch_import commits the longest child path as well; a
\* failed call with batch_import set commits nothing.
C30_SuccessfulBatchImportCommitsOneBlock ==
    (IsCall /\ last.branch = "CanonChain") =>
        IF last.batch_import
        THEN IF last.result = "Ok"
             THEN /\ canon = Append(last.pre.canon, last.block)
                  /\ block_height(Ledger) = block_height(PreLedger) + 1
                  /\ \A x \in stored :
                        previous_block_hash(x) = last.block => ~is_canon(Ledger, x)
             ELSE canon = last.pre.canon
        ELSE last.result = "Ok" =>
                /\ canon = last.pre.canon \o last.child_path
                /\ block_height(Ledger) = block_height(PreLedger) + Len(last.child_path)

C30_Witness ==
    /\ IsCall
    /\ last.branch = "CanonChain"
    /\ last.batch_import
    /\ last.result = "Ok"
    /\ Len(last.child_path) >= 2
    /\ \E x \in last.pre.stored : previous_block_hash(x) = last.block

====
